---- MODULE Spec2Model ----
(***************************************************************************)
(* Piece-table text buffer of text-editor-rs (crates/text-buffer).         *)
(*                                                                         *)
(* Strings are sequences of bytes (numbers).  Table indices and byte       *)
(* offsets are 0-based as in the Rust code; TLA+ sequences are 1-based, so *)
(* table[i] of the code is table[i + 1] here.                              *)
(*                                                                         *)
(* usize values are integers; a negative integer v stands for the wrapped  *)
(* value 2^64 + v that unchecked (release) arithmetic produces.  Sums and  *)
(* differences of such representatives are exact modulo 2^64 as long as    *)
(* magnitudes stay small, which the bounds guarantee; comparisons go       *)
(* through ULe/ULt, which order the unsigned values.                       *)
(*                                                                         *)
(* The build profile decides whether debug_assert! and arithmetic overflow *)
(* checks are compiled in: debug_assertions is chosen once, at Init.       *)
(***************************************************************************)
EXTENDS Integers, Sequences, FiniteSets, TLC

VARIABLES
    phase,              \* "uninit" | "ready" | "panicked"
    debug_assertions,   \* TRUE: debug profile, FALSE: release profile
    original,           \* TextBuffer.original
    add,                \* TextBuffer.add
    table,              \* TextBuffer.table : sequence of spans
    hist,               \* operations performed so far, each with the buffer before it
    naive,              \* the same edits applied to a plain string
    in_range,           \* every edit so far had in-range arguments
    returned,           \* what the last call handed back to its caller
    editor              \* the Editor with its document and terminal; absent in the buffer machines

vars == <<phase, debug_assertions, original, add, table, hist, naive, in_range, returned,
         editor>>

(***************************************************************************)
(* Bounds and input sets                                                   *)
(***************************************************************************)
MaxOps == 2

LF == 10

InitialTexts == { <<>>, <<97, LF, 98>> }

Texts == { <<>>, <<120>>, <<121, LF>> }

\* multi-byte text: U+00E9 (two bytes), LF, 'b'
Utf8Texts == { <<195, 169, LF, 98>> }

\* the longest initial text has 4 bytes, the longest inserted text 2
\* events handled by one run of the editor
MaxEvents == 3

\* edits after the construction in the machine that builds tables of four spans
MaxSpanOps == 3

\* Editor::new: status is "Document"
StatusText == <<68, 111, 99, 117, 109, 101, 110, 116>>

\* terminal sizes, and where the shell left the cursor
TerminalSizes == { [width |-> 11, height |-> 3], [width |-> 20, height |-> 4] }

InitialCursors == { [x |-> 0, y |-> 0], [x |-> 0, y |-> 1] }

\* what event::read returns
TerminalEvents == { "Left", "Right", "Up", "Down", "Char", "CtrlQ", "Other" }

\* contents of the files a Document is loaded from
FileContents == InitialTexts \cup { <<97, LF>> }

\* characters typed into a Document
Chars == { 120, LF }

\* line and column numbers handed to Document::insert
Lines == 0 .. 3

Columns == 0 .. 2

MaxDocLen == 4 + 2 * MaxOps

\* positions offered to insert and delete: up to two past the document's end
Positions == 0 .. (MaxDocLen + 2)

(***************************************************************************)
(* usize arithmetic                                                        *)
(***************************************************************************)
ULe(a, b) == IF (a >= 0) = (b >= 0) THEN a <= b ELSE a >= 0

ULt(a, b) == ULe(a, b) /\ a # b

\* a - b on usize: aborts when overflow checks are compiled in and a < b.
sub_overflows(a, b) == debug_assertions /\ ULt(a, b)

(***************************************************************************)
(* Byte strings                                                            *)
(***************************************************************************)
is_newline_char(c) == c = LF

IsContinuationByte(b) == b >= 128 /\ b < 192

\* str::is_char_boundary
is_char_boundary(s, i) ==
    \/ i = 0
    \/ i = Len(s)
    \/ (i > 0 /\ i < Len(s) /\ ~IsContinuationByte(s[i + 1]))

\* &s[from..to]; the caller has checked the range
Slice(s, from, to) == SubSeq(s, from + 1, to)

\* index that chars().enumerate() gives to the char starting at byte i
CharIndex(s, i) == Cardinality({ j \in 1 .. i : ~IsContinuationByte(s[j]) })

RECURSIVE NewlinePositionsFrom(_, _)
NewlinePositionsFrom(s, i) ==
    IF i >= Len(s) THEN <<>>
    ELSE IF is_newline_char(s[i + 1])
         THEN <<CharIndex(s, i)>> \o NewlinePositionsFrom(s, i + 1)
         ELSE NewlinePositionsFrom(s, i + 1)

\* for (pos, c) in contents.chars().enumerate() { if is_newline_char(c) { lines.push(pos) } }
NewlinePositions(s) == NewlinePositionsFrom(s, 0)

\* the pieces of s between its LF bytes, in order
RECURSIVE SplitLines(_)
SplitLines(s) ==
    LET lfs == { i \in 1 .. Len(s) : s[i] = LF } IN
    IF lfs = {} THEN <<s>>
    ELSE LET i == CHOOSE x \in lfs : \A y \in lfs : x <= y
         IN  <<SubSeq(s, 1, i - 1)>> \o SplitLines(SubSeq(s, i + 1, Len(s)))

(***************************************************************************)
(* Vec operations                                                          *)
(***************************************************************************)
VecInsert(v, i, x) == SubSeq(v, 1, i) \o <<x>> \o SubSeq(v, i + 1, Len(v))

VecRemove(v, i) == SubSeq(v, 1, i) \o SubSeq(v, i + 2, Len(v))

VecSet(v, i, x) == [v EXCEPT ![i + 1] = x]

(***************************************************************************)
(* Span and TextBuffer                                                     *)
(***************************************************************************)
\* Span::new that stores the end offset in the len field
Span_new_len_as_end(buffer, start, len, lines) ==
    [buffer |-> buffer, start |-> start, end |-> start + len, len |-> start + len,
     lines |-> lines]

Span_new(buffer, start, len, lines) ==
    [buffer |-> buffer, start |-> start, end |-> start + len, len |-> len, lines |-> lines]

Self == [original |-> original, add |-> add, table |-> table]

Failed == [ok |-> FALSE]

Done(self) == [ok |-> TRUE, self |-> self]

BufferOf(self, buffer_type) == IF buffer_type = "Add" THEN self.add ELSE self.original

get_buffer_contents(self, buffer_type, start, end) ==
    LET buffer == BufferOf(self, buffer_type) IN
    IF ~ULe(start, end) THEN Failed
    ELSE IF ~ULe(start, Len(buffer)) THEN Failed
    ELSE IF ~ULe(end, Len(buffer)) THEN Failed
    ELSE IF ~(is_char_boundary(buffer, start) /\ is_char_boundary(buffer, end)) THEN Failed
    ELSE [ok |-> TRUE, val |-> Slice(buffer, start, end)]

get_span_contents(self, span) ==
    LET buffer == BufferOf(self, span.buffer) IN
    IF ~ULe(span.start, span.end) THEN Failed
    ELSE IF ~ULe(span.start, Len(buffer)) THEN Failed
    ELSE IF ~ULe(span.end, Len(buffer)) THEN Failed
    ELSE IF ~(is_char_boundary(buffer, span.start) /\ is_char_boundary(buffer, span.end))
         THEN Failed
    ELSE [ok |-> TRUE, val |-> Slice(buffer, span.start, span.end)]

create_span(self, buffer, start, len) ==
    LET end == start + len
        contents == get_buffer_contents(self, buffer, start, end)
    IN  IF ~ULe(start, end) THEN Failed
        ELSE IF debug_assertions /\ len = 0 THEN Failed
        ELSE IF ~contents.ok THEN Failed
        ELSE [ok |-> TRUE, span |-> Span_new(buffer, start, len, NewlinePositions(contents.val))]

\* doc_len that sums the spans' end offsets instead of their lengths
RECURSIVE doc_len_from_ends(_, _)
doc_len_from_ends(tbl, i) ==
    IF i > Len(tbl) THEN 0 ELSE tbl[i].end + doc_len_from_ends(tbl, i + 1)

RECURSIVE doc_len_from(_, _)
doc_len_from(tbl, i) ==
    IF i > Len(tbl) THEN 0 ELSE tbl[i].len + doc_len_from(tbl, i + 1)

doc_len(self) == doc_len_from(self.table, 1)

RECURSIVE piece_scan(_, _, _, _)
piece_scan(tbl, pos, i, current_pos) ==
    IF i >= Len(tbl) THEN [found |-> FALSE]
    ELSE LET piece == tbl[i + 1] IN
         IF current_pos + piece.len >= pos
         THEN [found |-> TRUE, index |-> i, span |-> piece,
               doc |-> [start |-> current_pos, end |-> current_pos + piece.len]]
         ELSE piece_scan(tbl, pos, i + 1, current_pos + piece.len)

\* get_piece_at_position that wants the accumulated end to be beyond pos
get_piece_beyond_position(self, pos) == piece_scan(self.table, pos + 1, 0, 0)

get_piece_at_position(self, pos) == piece_scan(self.table, pos, 0, 0)

RECURSIVE text_from(_, _)
text_from(self, i) ==
    IF i > Len(self.table) THEN [ok |-> TRUE, val |-> <<>>]
    ELSE LET c == get_span_contents(self, self.table[i])
             rest == text_from(self, i + 1)
         IN  IF ~c.ok \/ ~rest.ok THEN Failed
             ELSE [ok |-> TRUE, val |-> c.val \o rest.val]

text(self) == text_from(self, 1)

\* add_to_buffer that puts the new bytes in front of the add buffer
add_to_buffer_front(self, t) == [self EXCEPT !.add = t \o self.add]

add_to_buffer(self, t) == [self EXCEPT !.add = self.add \o t]

TextBuffer_new(txt) ==
    IF txt.some
    THEN LET buffer == [original |-> txt.val, add |-> <<>>, table |-> <<>>]
             span == create_span(buffer, "Original", 0, Len(buffer.original))
         IN  IF ~span.ok THEN Failed
             ELSE Done([buffer EXCEPT !.table = Append(buffer.table, span.span)])
    ELSE Done([original |-> <<>>, add |-> <<>>, table |-> <<>>])

append(self, t) ==
    LET pos == Len(self.add)
        self1 == add_to_buffer(self, t)
        span == create_span(self1, "Add", pos, Len(t))
    IN  IF ~span.ok THEN Failed
        ELSE Done([self1 EXCEPT !.table = Append(self1.table, span.span)])

prepend(self, t) ==
    LET pos == Len(self.add)
        self1 == add_to_buffer(self, t)
        span == create_span(self1, "Add", pos, Len(t))
    IN  IF ~span.ok THEN Failed
        ELSE Done([self1 EXCEPT !.table = VecInsert(self1.table, 0, span.span)])

\* insert that pushes the new bytes to add before it looks the position up
insert_eager_add(self, pos, t) ==
    IF pos = 0 THEN prepend(self, t)
    ELSE IF pos = doc_len(self) THEN append(self, t)
    ELSE LET piece == get_piece_at_position(self, pos)
             pos_in_add_buffer == Len(self.add)
             self1 == add_to_buffer(self, t)
         IN
         IF ~piece.found THEN Done(self1)
         ELSE LET piece1 == create_span(self1, piece.span.buffer, piece.span.start,
                                        pos - piece.doc.start)
                  piece2 == create_span(self1, "Add", pos_in_add_buffer, Len(t))
                  p3_start == piece1.span.start + piece1.span.len
                  piece3 == create_span(self1, piece.span.buffer, p3_start,
                                        piece.span.len - p3_start)
                  t1 == VecSet(self1.table, piece.index, piece1.span)
                  t2 == VecInsert(t1, piece.index + 1, piece3.span)
                  t3 == VecInsert(t2, piece.index + 1, piece2.span)
              IN  IF sub_overflows(pos, piece.doc.start) THEN Failed
                  ELSE IF ~piece1.ok \/ ~piece2.ok THEN Failed
                  ELSE IF sub_overflows(piece.span.len, p3_start) THEN Failed
                  ELSE IF ~piece3.ok THEN Failed
                  ELSE Done([self1 EXCEPT !.table = t3])

insert(self, pos, t) ==
    IF pos = 0 THEN prepend(self, t)
    ELSE IF pos = doc_len(self) THEN append(self, t)
    ELSE LET piece == get_piece_at_position(self, pos) IN
         IF ~piece.found THEN Done(self)
         ELSE LET pos_in_add_buffer == Len(self.add)
                  self1 == add_to_buffer(self, t)
                  piece1 == create_span(self1, piece.span.buffer, piece.span.start,
                                        pos - piece.doc.start)
                  piece2 == create_span(self1, "Add", pos_in_add_buffer, Len(t))
                  p3_start == piece1.span.start + piece1.span.len
                  piece3 == create_span(self1, piece.span.buffer, p3_start,
                                        piece.span.len - p3_start)
                  t1 == VecSet(self1.table, piece.index, piece1.span)
                  t2 == VecInsert(t1, piece.index + 1, piece3.span)
                  t3 == VecInsert(t2, piece.index + 1, piece2.span)
              IN  IF sub_overflows(pos, piece.doc.start) THEN Failed
                  ELSE IF ~piece1.ok \/ ~piece2.ok THEN Failed
                  ELSE IF sub_overflows(piece.span.len, p3_start) THEN Failed
                  ELSE IF ~piece3.ok THEN Failed
                  ELSE Done([self1 EXCEPT !.table = t3])

delete_split_piece(self, index, start, end) ==
    LET ex == self.table[index + 1]
        p1 == create_span(self, ex.buffer, ex.start, start)
        p2 == create_span(self, ex.buffer, ex.start + end, ex.len - end)
        t1 == VecSet(self.table, index, p1.span)
        t2 == VecInsert(t1, index + 1, p2.span)
    IN  IF index >= Len(self.table) THEN Failed
        ELSE IF ~p1.ok THEN Failed
        ELSE IF sub_overflows(ex.len, end) THEN Failed
        ELSE IF ~p2.ok THEN Failed
        ELSE Done([self EXCEPT !.table = t2])

\* for i in lo..hi { self.table.remove(i); }   (Vec::remove aborts when i >= len)
RECURSIVE remove_loop(_, _, _)
remove_loop(tbl, i, hi) ==
    IF i >= hi THEN [ok |-> TRUE, table |-> tbl]
    ELSE IF i >= Len(tbl) THEN Failed
    ELSE remove_loop(VecRemove(tbl, i), i + 1, hi)

delete_multiple(self, p1, p2, start, end) ==
    LET p1_len_to_delete == p1.doc.end - start
        p1_new_len == p1.span.len - p1_len_to_delete
        s1 == create_span(self, p1.span.buffer, p1.span.start, p1_new_len)
        p2_new_len == p2.doc.end - end
        p2_new_start == p2.span.end - p2_new_len
        s2 == create_span(self, p2.span.buffer, p2_new_start, p2_new_len)
        t1 == VecSet(self.table, p1.index, s1.span)
        t2 == VecSet(t1, p2.index, s2.span)
        removed == IF sub_overflows(p2.index, p1.index) THEN Failed
                   ELSE IF ~ULe(p2.index - p1.index, 1)
                        THEN remove_loop(t2, p1.index + 1, p2.index)
                        ELSE [ok |-> TRUE, table |-> t2]
    IN  IF sub_overflows(p1.doc.end, start) THEN Failed
        ELSE IF sub_overflows(p1.span.len, p1_len_to_delete) THEN Failed
        ELSE IF ~s1.ok THEN Failed
        ELSE IF sub_overflows(p2.doc.end, end) THEN Failed
        ELSE IF sub_overflows(p2.span.end, p2_new_len) THEN Failed
        ELSE IF ~s2.ok THEN Failed
        ELSE IF ~removed.ok THEN Failed
        ELSE Done([self EXCEPT !.table = removed.table])

\* delete that clamps an end beyond the document to the document's end
delete_clamping(self, start, end) ==
    LET p1 == get_piece_at_position(self, start)
        p2 == get_piece_at_position(self, end)
        last == get_piece_at_position(self, doc_len(self))
    IN  IF sub_overflows(end, start) THEN Failed
        ELSE IF p1.found /\ p2.found /\ p1.index = p2.index
             THEN delete_split_piece(self, p1.index, start - p1.doc.start, start + (end - start))
        ELSE IF p1.found /\ p2.found THEN delete_multiple(self, p1, p2, start, end)
        ELSE IF p1.found /\ last.found /\ p1.index = last.index
             THEN delete_split_piece(self, p1.index, start - p1.doc.start, doc_len(self))
        ELSE IF p1.found /\ last.found
             THEN delete_multiple(self, p1, last, start, doc_len(self))
        ELSE Done(self)

delete(self, start, end) ==
    LET len == end - start
        p1 == get_piece_at_position(self, start)
        p2 == get_piece_at_position(self, end)
    IN  IF sub_overflows(end, start) THEN Failed
        ELSE IF p1.found /\ p2.found /\ p1.index = p2.index
             THEN IF sub_overflows(start, p1.doc.start) THEN Failed
                  ELSE delete_split_piece(self, p1.index, start - p1.doc.start, start + len)
        ELSE IF p1.found /\ p2.found THEN delete_multiple(self, p1, p2, start, end)
        ELSE Done(self)

(***************************************************************************)
(* The older TextBuffer (src/buffer.rs): the same table without the cached  *)
(* newline lists and without create_span's checks; delete_multiple updates  *)
(* the fields of the first and the last span in place.  A length that       *)
(* wrapped in a release build is a negative number here.                    *)
(***************************************************************************)
buffer_Span_new(buffer, start, len) ==
    [buffer |-> buffer, start |-> start, end |-> start + len, len |-> len]

buffer_new(txt) ==
    LET buffer == [original |-> IF txt.some THEN txt.val ELSE <<>>, add |-> <<>>,
                   table |-> <<>>]
    IN  Done([buffer EXCEPT !.table =
                 <<buffer_Span_new("Original", 0, IF txt.some THEN Len(txt.val) ELSE 0)>>])

buffer_append(self, t) ==
    Done([add_to_buffer(self, t) EXCEPT !.table =
             Append(self.table, buffer_Span_new("Add", Len(self.add), Len(t)))])

buffer_prepend(self, t) ==
    Done([add_to_buffer(self, t) EXCEPT !.table =
             VecInsert(self.table, 0, buffer_Span_new("Add", Len(self.add), Len(t)))])

RECURSIVE buffer_piece_scan(_, _, _, _)
buffer_piece_scan(tbl, pos, i, current_pos) ==
    IF i >= Len(tbl) THEN [found |-> FALSE]
    ELSE LET piece == tbl[i + 1] IN
         IF ULe(pos, current_pos + piece.len)
         THEN [found |-> TRUE, index |-> i, span |-> piece,
               doc |-> [start |-> current_pos, end |-> current_pos + piece.len]]
         ELSE buffer_piece_scan(tbl, pos, i + 1, current_pos + piece.len)

buffer_get_piece_at_position(self, pos) == buffer_piece_scan(self.table, pos, 0, 0)

buffer_insert(self, pos, t) ==
    IF pos = 0 THEN buffer_prepend(self, t)
    ELSE IF pos = doc_len(self) THEN buffer_append(self, t)
    ELSE LET piece == buffer_get_piece_at_position(self, pos) IN
         IF ~piece.found THEN Done(self)
         ELSE LET pos_in_add_buffer == Len(self.add)
                  self1 == add_to_buffer(self, t)
                  piece1 == buffer_Span_new(piece.span.buffer, piece.span.start,
                                            pos - piece.doc.start)
                  piece2 == buffer_Span_new("Add", pos_in_add_buffer, Len(t))
                  p3_start == piece1.start + piece1.len
                  piece3 == buffer_Span_new(piece.span.buffer, p3_start,
                                            piece.span.len - p3_start)
                  t1 == VecSet(self1.table, piece.index, piece1)
                  t2 == VecInsert(t1, piece.index + 1, piece3)
                  t3 == VecInsert(t2, piece.index + 1, piece2)
              IN  IF sub_overflows(pos, piece.doc.start) THEN Failed
                  ELSE IF sub_overflows(piece.span.len, p3_start) THEN Failed
                  ELSE Done([self1 EXCEPT !.table = t3])

buffer_delete_split_piece(self, index, start, end) ==
    LET ex == self.table[index + 1]
        p1 == buffer_Span_new(ex.buffer, ex.start, start)
        p2 == buffer_Span_new(ex.buffer, ex.start + end, ex.len - end)
        t1 == VecSet(self.table, index, p1)
        t2 == VecInsert(t1, index + 1, p2)
    IN  IF sub_overflows(ex.len, end) THEN Failed
        ELSE Done([self EXCEPT !.table = t2])

\* delete_multiple that leaves the end field of the first span as it was
buffer_delete_multiple_stale_end(self, p1, p2, start, end) ==
    LET p1_len_to_delete == p1.doc.end - start
        p1_new_len == p1.span.len - p1_len_to_delete
        p2_new_len == p2.doc.end - end
        p2_new_start == p2.span.end - p2_new_len
        t1 == [self.table EXCEPT ![p1.index + 1].len = p1_new_len]
        t2 == [t1 EXCEPT ![p2.index + 1].len = p2_new_len,
                         ![p2.index + 1].start = p2_new_start]
        removed == IF ~ULe(p2.index - p1.index, 1)
                   THEN remove_loop(t2, p1.index + 1, p2.index)
                   ELSE [ok |-> TRUE, table |-> t2]
    IN  IF ~removed.ok THEN Failed
        ELSE Done([self EXCEPT !.table = removed.table])

buffer_delete_multiple(self, p1, p2, start, end) ==
    LET p1_len_to_delete == p1.doc.end - start
        p1_new_end == p1.span.end - p1_len_to_delete
        p1_new_len == p1.span.len - p1_len_to_delete
        p2_new_len == p2.doc.end - end
        p2_new_start == p2.span.end - p2_new_len
        t1 == [self.table EXCEPT ![p1.index + 1].end = p1_new_end,
                                 ![p1.index + 1].len = p1_new_len]
        t2 == [t1 EXCEPT ![p2.index + 1].len = p2_new_len,
                         ![p2.index + 1].start = p2_new_start]
        removed == IF sub_overflows(p2.index, p1.index) THEN Failed
                   ELSE IF ~ULe(p2.index - p1.index, 1)
                        THEN remove_loop(t2, p1.index + 1, p2.index)
                        ELSE [ok |-> TRUE, table |-> t2]
    IN  IF sub_overflows(p1.doc.end, start) THEN Failed
        ELSE IF sub_overflows(p1.span.end, p1_len_to_delete) THEN Failed
        ELSE IF sub_overflows(p1.span.len, p1_len_to_delete) THEN Failed
        ELSE IF sub_overflows(p2.doc.end, end) THEN Failed
        ELSE IF sub_overflows(p2.span.end, p2_new_len) THEN Failed
        ELSE IF ~removed.ok THEN Failed
        ELSE Done([self EXCEPT !.table = removed.table])

buffer_delete(self, start, end) ==
    LET len == end - start
        p1 == buffer_get_piece_at_position(self, start)
        p2 == buffer_get_piece_at_position(self, end)
    IN  IF sub_overflows(end, start) THEN Failed
        ELSE IF p1.found /\ p2.found /\ p1.index = p2.index
             THEN IF sub_overflows(start, p1.doc.start) THEN Failed
                  ELSE buffer_delete_split_piece(self, p1.index, start - p1.doc.start,
                                                 start + len)
        ELSE IF p1.found /\ p2.found THEN buffer_delete_multiple(self, p1, p2, start, end)
        ELSE Done(self)

(***************************************************************************)
(* Queries                                                                 *)
(***************************************************************************)
\* &s[from..to] with the checks str indexing makes: aborts unless
\* from <= to <= len and both ends are char boundaries
checked_slice(s, from, to) ==
    IF ~(ULe(from, to) /\ ULe(to, Len(s))) THEN Failed
    ELSE IF ~(is_char_boundary(s, from) /\ is_char_boundary(s, to)) THEN Failed
    ELSE [ok |-> TRUE, val |-> Slice(s, from, to)]

get_span_contents_with_offset(self, span, offset) ==
    IF ~ULe(span.start, span.end) THEN Failed
    ELSE checked_slice(BufferOf(self, span.buffer), span.start + offset, span.end)

RECURSIVE count_newlines(_, _)
count_newlines(s, i) ==
    IF i > Len(s) THEN 0
    ELSE (IF is_newline_char(s[i]) THEN 1 ELSE 0) + count_newlines(s, i + 1)

RECURSIVE line_count_from(_, _)
line_count_from(self, i) ==
    IF i > Len(self.table) THEN [ok |-> TRUE, val |-> 0]
    ELSE LET c == get_span_contents(self, self.table[i])
             rest == line_count_from(self, i + 1)
         IN  IF ~c.ok \/ ~rest.ok THEN Failed
             ELSE [ok |-> TRUE, val |-> count_newlines(c.val, 1) + rest.val]

\* get_line_count with the count started at 0 instead of 1
get_line_count_from_zero(self) == line_count_from(self, 1)

get_line_count(self) ==
    LET n == line_count_from(self, 1) IN
    IF ~n.ok THEN Failed ELSE [ok |-> TRUE, val |-> 1 + n.val]

None == [ok |-> TRUE, some |-> FALSE]

Some(v) == [ok |-> TRUE, some |-> TRUE, val |-> v]

\* positions of span.lines the loop does not skip: all of them, or in the span the
\* line starts in those after the line's own newline
LinesAfter(lines, skip, offset) ==
    SelectSeq(lines, LAMBDA pos : ~(skip /\ pos <= offset))

RECURSIVE until_next_linebreak_from(_, _, _, _, _)
until_next_linebreak_from(self, index, offset, i, result) ==
    IF i >= Len(self.table) THEN [ok |-> TRUE, val |-> result]
    ELSE LET span == self.table[i + 1]
             txt == IF i = index
                    THEN get_span_contents_with_offset(self, span, offset + 1)
                    ELSE get_span_contents(self, span)
             rest == LinesAfter(span.lines, i = index, offset)
             end_pos == IF i = index THEN rest[1] - offset - 1 ELSE rest[1]
             cut == checked_slice(txt.val, 0, end_pos)
         IN  IF ~txt.ok THEN Failed
             ELSE IF rest # <<>>
                  THEN IF ~cut.ok THEN Failed
                       ELSE [ok |-> TRUE, val |-> result \o cut.val]
             ELSE until_next_linebreak_from(self, index, offset, i + 1, result \o txt.val)

get_line_content_until_next_linebreak(self, index, offset) ==
    until_next_linebreak_from(self, index, offset, index, <<>>)

RECURSIVE first_line_from(_, _, _)
first_line_from(self, i, result) ==
    IF i > Len(self.table) THEN Some(result)
    ELSE LET span == self.table[i]
             txt == get_span_contents(self, span)
             cut == checked_slice(txt.val, 0, span.lines[1])
         IN  IF ~txt.ok THEN Failed
             ELSE IF span.lines # <<>>
                  THEN IF ~cut.ok THEN Failed ELSE Some(result \o cut.val)
             ELSE first_line_from(self, i + 1, result \o txt.val)

RECURSIVE find_line_from(_, _, _, _)
find_line_from(self, line, index, current_line) ==
    IF index >= Len(self.table) THEN None
    ELSE LET piece == self.table[index + 1]
             k == line - current_line
         IN  IF 1 <= k /\ k <= Len(piece.lines)
             THEN LET r == get_line_content_until_next_linebreak(self, index, piece.lines[k])
                  IN  IF ~r.ok THEN Failed ELSE Some(r.val)
             ELSE find_line_from(self, line, index + 1, current_line + Len(piece.lines))

\* get_line_content without the early return for an empty table
get_line_content_no_empty_check(self, line) ==
    IF line = 1 THEN first_line_from(self, 1, <<>>)
    ELSE find_line_from(self, line, 0, 1)

get_line_content(self, line) ==
    IF self.table = <<>> THEN None
    ELSE IF line = 1 THEN first_line_from(self, 1, <<>>)
    ELSE find_line_from(self, line, 0, 1)

\* get_lines that pushes an empty string for a line that does not exist
RECURSIVE get_lines_with_blanks(_, _, _)
get_lines_with_blanks(self, start, end) ==
    IF start >= end THEN [ok |-> TRUE, val |-> <<>>]
    ELSE LET content == get_line_content(self, start)
             rest == get_lines_with_blanks(self, start + 1, end)
         IN  IF ~content.ok \/ ~rest.ok THEN Failed
             ELSE [ok |-> TRUE,
                   val |-> <<IF content.some THEN content.val ELSE <<>> >> \o rest.val]

\* Document::get_lines(start..end)
RECURSIVE get_lines(_, _, _)
get_lines(self, start, end) ==
    IF start >= end THEN [ok |-> TRUE, val |-> <<>>]
    ELSE LET content == get_line_content(self, start)
             rest == get_lines(self, start + 1, end)
         IN  IF ~content.ok \/ ~rest.ok THEN Failed
             ELSE [ok |-> TRUE,
                   val |-> (IF content.some THEN <<content.val>> ELSE <<>>) \o rest.val]

(***************************************************************************)
(* Document (bin/src/document.rs): a TextBuffer behind line/column         *)
(* coordinates.  The buffer is the document's only state modelled here.    *)
(***************************************************************************)
\* Document::load once the file has been read: contents is the file's text
Document_load(contents) ==
    LET buffer == TextBuffer_new([some |-> TRUE, val |-> contents]) IN
    IF ~buffer.ok THEN Failed
    ELSE IF debug_assertions /\ Len(contents) # doc_len(buffer.self) THEN Failed
    ELSE buffer

\* offset of the first byte of the line-th line of s (line is 1-based): one past the
\* (line - 1)-th LF byte
LineStart(s, line) ==
    IF line = 1 THEN 0
    ELSE CHOOSE i \in 1 .. Len(s) :
             /\ s[i] = LF
             /\ Cardinality({ j \in 1 .. i : s[j] = LF }) = line - 1

\* length of the line that starts at offset from of s
RECURSIVE LineLength(_, _)
LineLength(s, from) ==
    IF from >= Len(s) \/ s[from + 1] = LF THEN 0 ELSE 1 + LineLength(s, from + 1)

\* TextBuffer::get_doc_pos: the byte offset of (line, column), None when the line is
\* out of range or the column exceeds the line's length
get_doc_pos(self, line, column) ==
    LET s == text(self) IN
    IF ~s.ok THEN Failed
    ELSE IF line < 1 \/ line > 1 + Cardinality({ i \in 1 .. Len(s.val) : s.val[i] = LF })
         THEN None
    ELSE IF column > LineLength(s.val, LineStart(s.val, line)) THEN None
    ELSE Some(LineStart(s.val, line) + column)

\* TextBuffer::insert_char: the table insert of the one character
insert_char(self, pos, c) == insert(self, pos, <<c>>)

Document_insert(self, line, column, c) ==
    LET pos == get_doc_pos(self, line, column) IN
    IF ~pos.ok THEN Failed
    ELSE IF pos.some THEN insert_char(self, pos.val, c)
    ELSE Done(self)

(***************************************************************************)
(* Editor (bin/src/editor.rs), its terminal (bin/src/terminal.rs) and key   *)
(* map (src/keymaps.rs).  The editor, its document and the terminal are    *)
(* one record; u16 and u32 values wrap like usize values do.               *)
(***************************************************************************)
Ok(e) == [st |-> "Ok", e |-> e]

Err(e) == [st |-> "Err", e |-> e]

Panic(e) == [st |-> "Panic", e |-> e]

\* Editor::new, on a terminal of the given size with the cursor where the shell
\* left it; load_failed, ctrl_q_read and last_event record what has happened so far, reported
\* whether a load error was shown to the user
Editor_new(size, cursor) ==
    [pc |-> "new", result |-> "none",
     column |-> 0, row |-> 1, document |-> [some |-> FALSE], exit |-> FALSE,
     lines |-> <<>>, should_render |-> TRUE, status |-> StatusText,
     size |-> size, cursor |-> cursor, raw_mode |-> FALSE, alternate_screen |-> FALSE,
     events |-> 0, load_failed |-> FALSE, reported |-> FALSE, io_failed |-> FALSE,
     ctrl_q_read |-> FALSE, read_after_exit |-> FALSE, started |-> FALSE,
     shutdown_called |-> FALSE, last_event |-> "none"]

\* the cursor after cursor::MoveTo / MoveLeft / MoveRight / MoveUp / MoveDown: the
\* terminal keeps it on the screen
OnScreen(e, x, y) ==
    [x |-> IF x < 0 THEN 0 ELSE IF x >= e.size.width THEN e.size.width - 1 ELSE x,
     y |-> IF y < 0 THEN 0 ELSE IF y >= e.size.height THEN e.size.height - 1 ELSE y]

move_cursor_to(e, x, y) == [e EXCEPT !.cursor = OnScreen(e, x, y)]

\* number of decimal digits of n
RECURSIVE Digits(_)
Digits(n) == IF n < 10 THEN 1 ELSE 1 + Digits(n \div 10)

\* render_status_line: TRUE when width - status.len() - pos.len() does not underflow
\* (on underflow debug builds abort at the subtraction, release builds when they
\* collect the wrapped number of spaces)
render_status_line(e) ==
    e.size.width >= Len(e.status) + Digits(e.cursor.x + 1) + 2 + Digits(e.row)

\* Editor::render: draws the cached lines and the status line; changes nothing
render(e) ==
    LET shown == { r \in 0 .. (e.size.height - 2) : r < Len(e.lines) } IN
    IF \E r \in shown : /\ Len(e.lines[r + 1]) > e.size.width
                        /\ ~is_char_boundary(e.lines[r + 1], e.size.width)
    THEN Panic(e)
    ELSE IF e.size.height >= 1 /\ ~render_status_line(e) THEN Panic(e)
    ELSE Ok(e)

\* Document::get_lines over a Range<u32>: empty when start >= end as u32 values
get_lines_range(e, start, end) ==
    IF ~ULt(start, end) THEN [ok |-> TRUE, val |-> <<>>]
    ELSE get_lines(e.document.buffer, start, end)

check_cursor_pos(e) ==
    LET pos == e.cursor
        y_index == pos.y
        len == Len(e.lines[y_index + 1])
        e1 == IF pos.x # e.column /\ e.column <= len
              THEN move_cursor_to(e, e.column, pos.y) ELSE e
        e2 == IF e.column > len THEN move_cursor_to(e1, len, pos.y) ELSE e1
    IN  IF y_index >= Len(e.lines) THEN Panic(e) ELSE Ok(e2)

move_cursor_up(e, offset) ==
    LET pos == e.cursor IN
    IF pos.y > 0
    THEN LET moved == [e EXCEPT !.cursor = OnScreen(e, pos.x, pos.y - offset)]
             checked == check_cursor_pos(moved)
         IN  IF checked.st # "Ok" THEN checked
             ELSE IF debug_assertions /\ e.row = 0 THEN Panic(e)
             ELSE Ok([checked.e EXCEPT !.row = e.row - 1])
    ELSE IF e.row # 1
    THEN IF debug_assertions /\ e.row = 0 THEN Panic(e)
         ELSE LET e1 == [e EXCEPT !.row = e.row - 1] IN
              IF ~e1.document.some THEN Ok(e1)
              ELSE LET lines == get_lines_range(e1, e1.row, e1.row + e1.size.height) IN
                   IF ~lines.ok THEN Panic(e)
                   ELSE check_cursor_pos([e1 EXCEPT !.lines = lines.val])
    ELSE Ok(e)

move_cursor_down(e, offset) ==
    LET size == e.size
        pos == e.cursor
    IN
    IF debug_assertions /\ size.height < 2 THEN Panic(e)
    ELSE IF ULt(pos.y, size.height - 2)
    THEN IF debug_assertions /\ e.lines = <<>> THEN Panic(e)
         ELSE IF ULe(pos.y, Len(e.lines) - 1)
         THEN check_cursor_pos([e EXCEPT !.row = e.row + 1,
                                         !.cursor = OnScreen(e, pos.x, pos.y + offset)])
         ELSE Ok(e)
    ELSE IF ~e.document.some THEN Ok(e)
    ELSE LET line_count == get_line_count(e.document.buffer) IN
         IF ~line_count.ok THEN Panic(e)
         ELSE IF ~ULt(e.row, line_count.val) THEN Ok(e)
         ELSE LET e1 == [e EXCEPT !.row = e.row + 1]
                  lines == get_lines_range(e1, e1.row - size.height, e1.row)
              IN  IF debug_assertions /\ ULt(e1.row, size.height) THEN Panic(e)
                  ELSE IF ~lines.ok THEN Panic(e)
                  ELSE check_cursor_pos([e1 EXCEPT !.lines = lines.val])

move_cursor_left(e, offset) ==
    LET moved == OnScreen(e, e.cursor.x - offset, e.cursor.y) IN
    Ok([e EXCEPT !.cursor = moved, !.column = moved.x])

move_cursor_right(e, offset) ==
    LET pos == e.cursor IN
    IF pos.y >= Len(e.lines) THEN Panic(e)
    ELSE IF pos.x < Len(e.lines[pos.y + 1])
    THEN LET moved == OnScreen(e, pos.x + offset, pos.y) IN
         Ok([e EXCEPT !.cursor = moved, !.column = moved.x])
    ELSE Ok(e)

handle_key_press(e, c) ==
    IF ~e.document.some THEN Ok(e)
    ELSE LET inserted == Document_insert(e.document.buffer, e.row, e.column, c) IN
         IF ~inserted.ok THEN Panic(e)
         ELSE Ok([e EXCEPT !.document.buffer = inserted.self, !.should_render = TRUE])

exit(e) == [e EXCEPT !.exit = TRUE]

\* KeyMaps::map_key_press_to_event on what event::read returned: the arrow keys, a
\* character without modifiers, Ctrl-q, or anything else (focus, mouse, paste,
\* resize, key release, other keys and modifiers)
map_key_press_to_event(event) ==
    CASE event = "Left" -> Some([kind |-> "MoveCursorLeft", offset |-> 1])
      [] event = "Right" -> Some([kind |-> "MoveCursorRight", offset |-> 1])
      [] event = "Up" -> Some([kind |-> "MoveCursorUp", offset |-> 1])
      [] event = "Down" -> Some([kind |-> "MoveCursorDown", offset |-> 1])
      [] event = "CtrlQ" -> Some([kind |-> "Exit"])
      [] event = "Char" -> Some([kind |-> "KeyPress", c |-> 120])
      [] OTHER -> None

process_event(e, event) ==
    LET e1 == [e EXCEPT !.should_render = TRUE] IN
    CASE event.kind = "KeyPress" -> handle_key_press(e1, event.c)
      [] event.kind = "Exit" -> Ok(exit(e1))
      [] event.kind = "MoveCursorUp" -> move_cursor_up(e1, event.offset)
      [] event.kind = "MoveCursorDown" -> move_cursor_down(e1, event.offset)
      [] event.kind = "MoveCursorLeft" -> move_cursor_left(e1, event.offset)
      [] event.kind = "MoveCursorRight" -> move_cursor_right(e1, event.offset)

\* the rest of handle_event once process_event has come back as processed: its ?,
\* then the render when should_render is set
render_processed(processed) ==
    IF processed.st # "Ok" THEN processed
    ELSE IF processed.e.should_render
         THEN render([processed.e EXCEPT !.should_render = FALSE])
         ELSE processed

\* Editor::handle_event when event::read returned event
handle_event(e, event) ==
    LET a == map_key_press_to_event(event) IN
    IF ~a.some THEN Ok(e) ELSE render_processed(process_event(e, a.val))

\* Editor::load: file is no path, a path that cannot be read, or a path with contents
Editor_load(e, file) ==
    IF file.kind = "none" THEN Ok(e)
    ELSE IF file.kind = "unreadable" THEN Err(e)
    ELSE LET document == Document_load(file.contents)
             lines == get_lines(document.self, 1, e.size.height)
         IN  IF ~document.ok \/ ~lines.ok THEN Panic(e)
             ELSE render(move_cursor_to(
                      [e EXCEPT !.lines = lines.val,
                                !.document = [some |-> TRUE, buffer |-> document.self]],
                      0, 0))

(***************************************************************************)
(* The same edits on a plain string                                        *)
(***************************************************************************)
NaiveInsert(s, pos, t) == SubSeq(s, 1, pos) \o t \o SubSeq(s, pos + 1, Len(s))

NaiveDelete(s, a, b) == SubSeq(s, 1, a) \o SubSeq(s, b + 1, Len(s))

(***************************************************************************)
(* State machine                                                           *)
(***************************************************************************)
Op(op, pos, end, t) ==
    [op |-> op, pos |-> pos, end |-> end, text |-> t, before |-> Self]

\* the buffer after a call that returned r; an abort leaves the process dead
Commit(r) ==
    IF r.ok
    THEN /\ phase' = "ready"
         /\ original' = r.self.original
         /\ add' = r.self.add
         /\ table' = r.self.table
    ELSE /\ phase' = "panicked"
         /\ UNCHANGED <<original, add, table>>

\* no TextBuffer yet, in either build profile
InitBuffer ==
    /\ phase = "uninit"
    /\ debug_assertions \in BOOLEAN
    /\ original = <<>>
    /\ add = <<>>
    /\ table = <<>>
    /\ hist = <<>>
    /\ naive = <<>>
    /\ in_range = TRUE
    /\ returned = "nothing"

Init == InitBuffer /\ editor = [pc |-> "absent"]

\* the value a call that ended as r gives its caller: v, or nothing after an abort
Returns(r, v) == returned' = IF r.ok THEN v ELSE "nothing"

NewNone ==
    /\ phase = "uninit"
    /\ Commit(TextBuffer_new([some |-> FALSE]))
    /\ Returns(TextBuffer_new([some |-> FALSE]), "TextBuffer")
    /\ hist' = <<Op("new_none", 0, 0, <<>>)>>
    /\ naive' = <<>>
    /\ UNCHANGED <<debug_assertions, in_range, editor>>

NewSome ==
    /\ phase = "uninit"
    /\ \E s \in InitialTexts :
          /\ Commit(TextBuffer_new([some |-> TRUE, val |-> s]))
          /\ Returns(TextBuffer_new([some |-> TRUE, val |-> s]), "TextBuffer")
          /\ hist' = <<Op("new_some", 0, 0, s)>>
          /\ naive' = s
    /\ UNCHANGED <<debug_assertions, in_range, editor>>

\* hist[1] is the construction; at most MaxOps edits follow it
CanEdit == phase = "ready" /\ Len(hist) - 1 < MaxOps

AppendOp ==
    /\ CanEdit
    /\ \E t \in Texts :
          /\ Commit(append(Self, t))
          /\ Returns(append(Self, t), "unit")
          /\ hist' = Append(hist, Op("append", 0, 0, t))
          /\ naive' = naive \o t
    /\ UNCHANGED <<debug_assertions, in_range, editor>>

PrependOp ==
    /\ CanEdit
    /\ \E t \in Texts :
          /\ Commit(prepend(Self, t))
          /\ Returns(prepend(Self, t), "unit")
          /\ hist' = Append(hist, Op("prepend", 0, 0, t))
          /\ naive' = t \o naive
    /\ UNCHANGED <<debug_assertions, in_range, editor>>

InsertOp ==
    /\ CanEdit
    /\ \E pos \in Positions, t \in Texts :
          /\ pos <= doc_len(Self) + 2
          /\ Commit(insert(Self, pos, t))
          /\ Returns(insert(Self, pos, t), "unit")
          /\ hist' = Append(hist, Op("insert", pos, 0, t))
          /\ IF pos <= Len(naive)
             THEN naive' = NaiveInsert(naive, pos, t) /\ in_range' = in_range
             ELSE naive' = naive /\ in_range' = FALSE
    /\ UNCHANGED <<debug_assertions, editor>>

DeleteOp ==
    /\ CanEdit
    /\ \E start \in Positions, end \in Positions :
          /\ start <= doc_len(Self) + 2
          /\ end <= doc_len(Self) + 2
          /\ Commit(delete(Self, start, end))
          /\ Returns(delete(Self, start, end), "unit")
          /\ hist' = Append(hist, Op("delete", start, end, <<>>))
          /\ IF start <= end /\ end <= Len(naive)
             THEN naive' = NaiveDelete(naive, start, end) /\ in_range' = in_range
             ELSE naive' = naive /\ in_range' = FALSE
    /\ UNCHANGED <<debug_assertions, editor>>

Next == NewNone \/ NewSome \/ AppendOp \/ PrependOp \/ InsertOp \/ DeleteOp

Spec == Init /\ [][Next]_vars

\* the same machine over initial texts that include a multi-byte character
NewSomeUtf8 ==
    /\ phase = "uninit"
    /\ \E s \in InitialTexts \cup Utf8Texts :
          /\ Commit(TextBuffer_new([some |-> TRUE, val |-> s]))
          /\ Returns(TextBuffer_new([some |-> TRUE, val |-> s]), "TextBuffer")
          /\ hist' = <<Op("new_some", 0, 0, s)>>
          /\ naive' = s
    /\ UNCHANGED <<debug_assertions, in_range, editor>>

NextUtf8 == NewNone \/ NewSomeUtf8 \/ AppendOp \/ PrependOp \/ InsertOp \/ DeleteOp

SpecUtf8 == Init /\ [][NextUtf8]_vars

\* the same machine over one initial text and one inserted text, with in-range
\* positions only and one more edit: long enough to build tables of four and more
\* spans and to delete across them
CanEditSpans == phase = "ready" /\ Len(hist) - 1 < MaxSpanOps

NewSomeSpans ==
    /\ phase = "uninit"
    /\ Commit(TextBuffer_new([some |-> TRUE, val |-> <<97, LF, 98>>]))
    /\ Returns(TextBuffer_new([some |-> TRUE, val |-> <<97, LF, 98>>]), "TextBuffer")
    /\ hist' = <<Op("new_some", 0, 0, <<97, LF, 98>>)>>
    /\ naive' = <<97, LF, 98>>
    /\ UNCHANGED <<debug_assertions, in_range, editor>>

AppendSpans ==
    /\ CanEditSpans
    /\ Commit(append(Self, <<120>>))
    /\ Returns(append(Self, <<120>>), "unit")
    /\ hist' = Append(hist, Op("append", 0, 0, <<120>>))
    /\ naive' = naive \o <<120>>
    /\ UNCHANGED <<debug_assertions, in_range, editor>>

InsertSpans ==
    /\ CanEditSpans
    /\ \E pos \in 0 .. MaxDocLen :
          /\ pos < doc_len(Self)
          /\ Commit(insert(Self, pos, <<120>>))
          /\ Returns(insert(Self, pos, <<120>>), "unit")
          /\ hist' = Append(hist, Op("insert", pos, 0, <<120>>))
          /\ naive' = NaiveInsert(naive, pos, <<120>>)
    /\ UNCHANGED <<debug_assertions, in_range, editor>>

DeleteSpans ==
    /\ CanEditSpans
    /\ \E start \in 0 .. MaxDocLen, end \in 0 .. MaxDocLen :
          /\ start < end
          /\ end <= doc_len(Self)
          /\ Commit(delete(Self, start, end))
          /\ Returns(delete(Self, start, end), "unit")
          /\ hist' = Append(hist, Op("delete", start, end, <<>>))
          /\ naive' = NaiveDelete(naive, start, end)
    /\ UNCHANGED <<debug_assertions, in_range, editor>>

NextSpans == NewSomeSpans \/ AppendSpans \/ InsertSpans \/ DeleteSpans

SpecSpans == Init /\ [][NextSpans]_vars

\* the machine of the older TextBuffer
BufferNew ==
    /\ phase = "uninit"
    /\ \E txt \in {[some |-> FALSE]} \cup { [some |-> TRUE, val |-> s] : s \in InitialTexts } :
          /\ Commit(buffer_new(txt))
          /\ Returns(buffer_new(txt), "TextBuffer")
          /\ hist' = <<Op("buffer_new", 0, 0, IF txt.some THEN txt.val ELSE <<>>)>>
          /\ naive' = IF txt.some THEN txt.val ELSE <<>>
    /\ UNCHANGED <<debug_assertions, in_range, editor>>

BufferAppend ==
    /\ CanEdit
    /\ \E t \in Texts :
          /\ Commit(buffer_append(Self, t))
          /\ Returns(buffer_append(Self, t), "unit")
          /\ hist' = Append(hist, Op("append", 0, 0, t))
          /\ naive' = naive \o t
    /\ UNCHANGED <<debug_assertions, in_range, editor>>

BufferPrepend ==
    /\ CanEdit
    /\ \E t \in Texts :
          /\ Commit(buffer_prepend(Self, t))
          /\ Returns(buffer_prepend(Self, t), "unit")
          /\ hist' = Append(hist, Op("prepend", 0, 0, t))
          /\ naive' = t \o naive
    /\ UNCHANGED <<debug_assertions, in_range, editor>>

BufferInsert ==
    /\ CanEdit
    /\ \E pos \in Positions, t \in Texts :
          /\ pos <= Len(naive) + 2
          /\ Commit(buffer_insert(Self, pos, t))
          /\ Returns(buffer_insert(Self, pos, t), "unit")
          /\ hist' = Append(hist, Op("insert", pos, 0, t))
          /\ IF pos <= Len(naive)
             THEN naive' = NaiveInsert(naive, pos, t) /\ in_range' = in_range
             ELSE naive' = naive /\ in_range' = FALSE
    /\ UNCHANGED <<debug_assertions, editor>>

BufferDelete ==
    /\ CanEdit
    /\ \E start \in Positions, end \in Positions :
          /\ start <= Len(naive) + 2
          /\ end <= Len(naive) + 2
          /\ Commit(buffer_delete(Self, start, end))
          /\ Returns(buffer_delete(Self, start, end), "unit")
          /\ hist' = Append(hist, Op("delete", start, end, <<>>))
          /\ IF start <= end /\ end <= Len(naive)
             THEN naive' = NaiveDelete(naive, start, end) /\ in_range' = in_range
             ELSE naive' = naive /\ in_range' = FALSE
    /\ UNCHANGED <<debug_assertions, editor>>

NextBuffer == BufferNew \/ BufferAppend \/ BufferPrepend \/ BufferInsert \/ BufferDelete

SpecBuffer == Init /\ [][NextBuffer]_vars

\* the Document machine: Document::new or Document::load, then Document::insert
\* calls; in hist an insert's pos is its line and its end its column
DocumentLoad ==
    /\ phase = "uninit"
    /\ \E contents \in FileContents :
          /\ Commit(Document_load(contents))
          /\ Returns(Document_load(contents), "Document")
          /\ hist' = <<Op("load", 0, 0, contents)>>
          /\ naive' = contents
    /\ UNCHANGED <<debug_assertions, in_range, editor>>

DocumentInsertOp ==
    /\ CanEdit
    /\ \E line \in Lines, column \in Columns, c \in Chars :
          /\ Commit(Document_insert(Self, line, column, c))
          /\ Returns(Document_insert(Self, line, column, c), "unit")
          /\ hist' = Append(hist, Op("doc_insert", line, column, <<c>>))
          /\ IF 1 <= line /\ line <= Len(SplitLines(naive))
                /\ column <= Len(SplitLines(naive)[line])
             THEN /\ naive' = NaiveInsert(naive, LineStart(naive, line) + column, <<c>>)
                  /\ in_range' = in_range
             ELSE naive' = naive /\ in_range' = FALSE
    /\ UNCHANGED <<debug_assertions, editor>>

NextDocument == NewNone \/ DocumentLoad \/ DocumentInsertOp

SpecDocument == Init /\ [][NextDocument]_vars

\* the Editor machine: main calls Editor::new, Editor::load (dropping its Result)
\* and Editor::run, which starts the terminal, handles events until the exit flag
\* is set and shuts the terminal down
Files ==
    {[kind |-> "none"], [kind |-> "unreadable"]}
        \cup { [kind |-> "file", contents |-> contents] : contents \in FileContents }

InitEditor ==
    /\ InitBuffer
    /\ editor \in { Editor_new(size, cursor) : size \in TerminalSizes, cursor \in InitialCursors }

BufferUnchanged ==
    UNCHANGED <<phase, debug_assertions, original, add, table, hist, naive, in_range, returned>>

MainLoad ==
    /\ editor.pc = "new"
    /\ \E file \in Files :
          LET loaded == Editor_load(editor, file) IN
          editor' = IF loaded.st = "Panic" THEN [editor EXCEPT !.pc = "panicked"]
                    ELSE [loaded.e EXCEPT !.pc = "loaded",
                                          !.load_failed = (loaded.st = "Err")]
    /\ BufferUnchanged

\* Editor::run up to its loop: Terminal::startup enters the alternate screen, then
\* raw mode; either step may fail
RunStartup ==
    /\ editor.pc = "loaded"
    /\ \E io \in {"ok", "screen fails", "raw mode fails"} :
          LET e == IF editor.document.some THEN editor
                   ELSE [editor EXCEPT !.document =
                            [some |-> TRUE, buffer |-> TextBuffer_new([some |-> FALSE]).self]]
          IN  editor' =
                 CASE io = "ok" ->
                          [e EXCEPT !.pc = "loop", !.started = TRUE,
                                    !.alternate_screen = TRUE, !.raw_mode = TRUE]
                   [] io = "screen fails" ->
                          [e EXCEPT !.pc = "returned", !.result = "Err", !.io_failed = TRUE]
                   [] io = "raw mode fails" ->
                          [e EXCEPT !.pc = "returned", !.result = "Err", !.io_failed = TRUE,
                                    !.alternate_screen = TRUE]
    /\ BufferUnchanged

\* while !self.exit
loop_condition(e) == ~e.exit

\* where self.handle_event()? leaves run: e is the editor when the pass began, read
\* the editor once the event was read, handled what handle_event gave for it.  The
\* read fails, or the event is handled and its terminal calls succeed, fail with an
\* error (the write of the rendered screen) or fail inside an expect (size, cursor
\* position, MoveTo)
handle_event_outcomes(e, read, handled, mapped) ==
    LET failed == [pc |-> "returned", result |-> "Err", io_failed |-> TRUE] IN
    {[e EXCEPT !.pc = failed.pc, !.result = failed.result, !.io_failed = TRUE]}
        \cup (IF mapped
              THEN {[read EXCEPT !.pc = "panicked", !.io_failed = TRUE]}
              ELSE {})
        \cup (IF handled.st # "Ok" THEN {[handled.e EXCEPT !.pc = "panicked"]}
              ELSE IF mapped
              THEN {handled.e,
                    [handled.e EXCEPT !.pc = failed.pc, !.result = failed.result,
                                      !.io_failed = TRUE]}
              ELSE {handled.e})

\* the editor once event::read has returned event
event_read(e, event) ==
    [e EXCEPT !.events = e.events + 1,
              !.last_event = event,
              !.read_after_exit = e.read_after_exit \/ e.exit,
              !.ctrl_q_read = e.ctrl_q_read \/ event = "CtrlQ"]

\* one pass of the loop
LoopEvent ==
    /\ editor.pc = "loop"
    /\ loop_condition(editor)
    /\ editor.events < MaxEvents
    /\ \E event \in TerminalEvents :
          editor' \in handle_event_outcomes(editor, event_read(editor, event),
                                            handle_event(event_read(editor, event), event),
                                            map_key_press_to_event(event).some)
    /\ BufferUnchanged

\* the end of Editor::run: Terminal::shutdown flushes and leaves the alternate screen
RunShutdown ==
    /\ editor.pc = "loop"
    /\ ~loop_condition(editor)
    /\ \E io \in {"ok", "error"} :
          editor' = IF io = "ok"
                    THEN [editor EXCEPT !.pc = "returned", !.result = "Ok",
                                        !.shutdown_called = TRUE,
                                        !.alternate_screen = FALSE]
                    ELSE [editor EXCEPT !.pc = "returned", !.result = "Err",
                                        !.shutdown_called = TRUE, !.io_failed = TRUE]
    /\ BufferUnchanged

NextEditor == MainLoad \/ RunStartup \/ LoopEvent \/ RunShutdown

SpecEditor == InitEditor /\ [][NextEditor]_vars

(***************************************************************************)
(* Claims                                                                  *)
(***************************************************************************)
Constructed == phase # "uninit"

Edited == Len(hist) >= 2

LastOp == hist[Len(hist)]

\* the call of LastOp returned, and text() of the buffer it left is s
ReturnedWithText(s) == phase = "ready" /\ text(Self).ok /\ text(Self).val = s

TextOf(self) == text(self).val

OnlyInsertDelete == \A i \in 2 .. Len(hist) : hist[i].op \in {"insert", "delete"}

\* C1: from TextBuffer::new(s), after every step of a sequence of in-range
\* insert and delete calls, text() equals the same edits applied to a plain string.
\* (Stated for the steps that return: an aborted call has no text() to compare.)
C1_TextRefinesPlainString ==
    (Edited /\ OnlyInsertDelete /\ in_range /\ phase = "ready") =>
        (text(Self).ok /\ text(Self).val = naive)

\* C2: TextBuffer::new(Some(s)).text() = s for every s, the empty string included,
\* and TextBuffer::new(None).text() is empty.
C2_NewRoundTrip ==
    (Constructed /\ Len(hist) = 1) =>
        ReturnedWithText(IF LastOp.op = "new_some" THEN LastOp.text ELSE <<>>)

IsAtStart(o) == o.op = "prepend" \/ (o.op = "insert" /\ o.pos = 0)

IsAtEnd(o) == o.op = "append" \/ (o.op = "insert" /\ o.pos = doc_len(o.before))

\* C3: in any reachable state with text() = p, insert(0, t) and prepend(t) make
\* text() = t ++ p, and insert(doc_len(), t) and append(t) make text() = p ++ t.
C3_InsertAtEnds ==
    /\ (Edited /\ IsAtStart(LastOp)) =>
           ReturnedWithText(LastOp.text \o TextOf(LastOp.before))
    /\ (Edited /\ ~IsAtStart(LastOp) /\ IsAtEnd(LastOp)) =>
           ReturnedWithText(TextOf(LastOp.before) \o LastOp.text)

FreshFrom(s) == Len(hist) = 2 /\ hist[1].op = "new_some" /\ hist[1].text = s

\* C4: on a buffer freshly constructed from a non-empty s, insert(p, t) with
\* 0 < p < len(s) makes text() = s[0..p] ++ t ++ s[p..].
C4_InsertMiddleFresh ==
    \A s \in InitialTexts :
        (FreshFrom(s) /\ LastOp.op = "insert" /\ 0 < LastOp.pos /\ LastOp.pos < Len(s)) =>
            ReturnedWithText(NaiveInsert(s, LastOp.pos, LastOp.text))

\* C5: on a buffer freshly constructed from s, delete(a, b) with 0 <= a < b <= len(s)
\* makes text() = s[0..a] ++ s[b..], at the start, at the end and in the middle of s.
C5_DeleteFresh ==
    \A s \in InitialTexts :
        (FreshFrom(s) /\ LastOp.op = "delete" /\ LastOp.pos < LastOp.end
                      /\ LastOp.end <= Len(s)) =>
            ReturnedWithText(NaiveDelete(s, LastOp.pos, LastOp.end))

InsertThenDelete ==
    /\ Len(hist) >= 3
    /\ hist[Len(hist) - 1].op = "insert"
    /\ hist[Len(hist) - 1].pos <= doc_len(hist[Len(hist) - 1].before)
    /\ LastOp.op = "delete"
    /\ LastOp.pos = hist[Len(hist) - 1].pos
    /\ LastOp.end = LastOp.pos + Len(hist[Len(hist) - 1].text)

\* C6: in any reachable state, insert(p, t) with p <= doc_len followed by
\* delete(p, p + len(t)) restores text() to its value before the insert.
C6_InsertDeleteRestores ==
    InsertThenDelete => ReturnedWithText(TextOf(hist[Len(hist) - 1].before))

Unchanged(o) == phase = "ready" /\ Self = o.before

DeleteEndBeyond(o) == o.op = "delete" /\ o.pos <= o.end /\ o.end > doc_len(o.before)

C8_DeleteClampsEnd ==
    (Edited /\ LastOp.op = "delete" /\ LastOp.pos < doc_len(LastOp.before)
            /\ doc_len(LastOp.before) < LastOp.end) =>
        ReturnedWithText(SubSeq(TextOf(LastOp.before), 1, LastOp.pos))

\* C9: delete(start, end) with start > end does not abort and leaves text(), the span
\* table and both buffers unchanged.
C9_DeleteReversedUnchanged ==
    (Edited /\ LastOp.op = "delete" /\ LastOp.pos > LastOp.end) => Unchanged(LastOp)

InsertBeyond(o) == o.op = "insert" /\ o.pos > doc_len(o.before)

EditBeyondEnds(o) ==
    \/ InsertBeyond(o)
    \/ (o.op = "delete" /\ o.pos <= o.end /\ o.end > doc_len(o.before))

\* C11: an insert or delete whose coordinates lie beyond the document's ends hands
\* its caller an OutOfRange error outcome, distinguishable from a successful edit.
C11_OutOfRangeSurfaced ==
    (Edited /\ EditBeyondEnds(LastOp)) => returned = "OutOfRange"

\* C12: after every operation doc_len(), the sum of the span lengths, equals the
\* byte length of text().
C12_DocLenIsTextLen ==
    Constructed =>
        LET t == text(Self) IN t.ok /\ doc_len(Self) = Len(t.val)

C12_Witness ==
    /\ phase = "ready"
    /\ Len(hist) = 3
    /\ hist[2].op = "insert" /\ LastOp.op = "delete"
    /\ Len(table) >= 3
    /\ \E i \in 1 .. Len(table) : table[i].start > 0
    /\ doc_len(Self) > 0

\* 1 + the number of LF bytes of s
LinesOf(s) == 1 + Cardinality({ i \in 1 .. Len(s) : s[i] = LF })

\* C13: in every reachable state get_line_count() is 1 plus the number of LF bytes
\* of text(); an empty document reports 1.
C13_LineCountIsNewlinesPlusOne ==
    Constructed =>
        LET n == get_line_count(Self) IN n.ok /\ n.val = LinesOf(TextOf(Self))

C13_Witness ==
    /\ phase = "ready"
    /\ Len(table) >= 2
    /\ \E i, j \in 1 .. Len(table) :
          /\ table[i].buffer = "Original" /\ table[i].lines # <<>>
          /\ table[j].buffer = "Add" /\ table[j].lines # <<>>
    /\ get_line_count(Self).val >= 3

\* C14: in every reachable state with a non-empty table, for every k with
\* 1 <= k <= get_line_count(), get_line_content(k) is Some of the k-th piece of text()
\* split at every LF byte.
C14_LineContentIsKthLine ==
    (phase = "ready" /\ table # <<>>) =>
        \A k \in 1 .. get_line_count(Self).val :
            get_line_content(Self, k) = Some(SplitLines(TextOf(Self))[k])

\* line numbers a caller may ask for: 0, the existing lines and two past the last
LineNumbers(self) == 0 .. (get_line_count(self).val + 2)

\* C15: get_line_content(line) is None whenever the table is empty, whenever
\* line = 0, and whenever line > get_line_count().
C15_NoSuchLineIsNone ==
    phase = "ready" =>
        LET line_count == get_line_count(Self).val IN
        \A line \in 0 .. (line_count + 2) :
            (table = <<>> \/ line = 0 \/ line > line_count) =>
                get_line_content(Self, line) = None

C15_Witness ==
    /\ phase = "ready"
    /\ Len(table) >= 3
    /\ \E i \in 1 .. Len(table) : table[i].lines # <<>>
    /\ get_line_count(Self).val >= 2
    /\ get_line_content(Self, get_line_count(Self).val + 1) = None
    /\ get_line_content(Self, get_line_count(Self).val).some

\* C16: in every reachable state and for every line number k, a Some result of
\* get_line_content(k) contains no LF byte.
C16_LineContentHasNoLF ==
    phase = "ready" =>
        \A k \in LineNumbers(Self) :
            LET r == get_line_content(Self, k) IN
            (r.ok /\ r.some) => \A i \in 1 .. Len(r.val) : r.val[i] # LF

\* ranges start..end handed to Document::get_lines
LineRanges == { r \in (0 .. 5) \X (0 .. 5) : r[1] <= r[2] }

\* C17: whenever the document is empty (doc_len() = 0), get_line_content(1) is None
\* and Document::get_lines returns an empty list for every range.
C17_EmptyDocumentHasNoLines ==
    (phase = "ready" /\ doc_len(Self) = 0) =>
        /\ get_line_content(Self, 1) = None
        /\ \A r \in LineRanges : get_lines(Self, r[1], r[2]) = [ok |-> TRUE, val |-> <<>>]

\* C18: after every operation every span stored in the table has length >= 1.
C18_NoZeroLengthSpan ==
    phase = "ready" => \A i \in 1 .. Len(table) : ULe(1, table[i].len)

\* C19: after every operation every span of the table satisfies
\* start + len <= length of the buffer its tag references.
C19_SpanWithinBuffer ==
    Constructed =>
        \A i \in 1 .. Len(table) :
            ULe(table[i].start + table[i].len, Len(BufferOf(Self, table[i].buffer)))

C19_Witness ==
    /\ phase = "ready"
    /\ Len(hist) = 3
    /\ Len(table) >= 3
    /\ \E i \in 1 .. Len(table) :
          /\ table[i].buffer = "Add"
          /\ table[i].start > 0
          /\ table[i].start + table[i].len = Len(add)
    /\ \E i \in 1 .. Len(table) :
          /\ table[i].buffer = "Original"
          /\ table[i].start > 0
          /\ table[i].start + table[i].len = Len(original)

EmptyTextAtEnds(o) == o.text = <<>> /\ (IsAtStart(o) \/ IsAtEnd(o))

\* C20: append(""), prepend("") and insert at position 0 or doc_len with empty text
\* are no-ops: the span table, both buffers and text() are unchanged.
C20_EmptyTextIsNoOp ==
    (Edited /\ EmptyTextAtEnds(LastOp)) =>
        (Unchanged(LastOp) /\ text(Self) = text(LastOp.before))

\* the arguments of call o are in range for the buffer it was made on
InRangeCall(o) ==
    /\ o.op = "insert" => o.pos <= doc_len(o.before)
    /\ o.op = "delete" => (o.pos <= o.end /\ o.end <= doc_len(o.before))

InRangeCalls == \A i \in 2 .. Len(hist) : InRangeCall(hist[i])

\* every query of the buffer returns
QueriesReturn(self) ==
    /\ text(self).ok
    /\ get_line_count(self).ok
    /\ \A k \in LineNumbers(self) : get_line_content(self, k).ok

\* C21: no sequence of new/append/prepend/insert/delete calls with in-range arguments,
\* followed by any query, reaches a failing assertion, an out-of-bounds slice or
\* table index, or an unsigned-subtraction underflow.
C21_InRangeNeverAborts ==
    (Constructed /\ InRangeCalls) =>
        (phase = "ready" /\ QueriesReturn(Self))

IsPrefix(p, s) == Len(p) <= Len(s) /\ SubSeq(s, 1, Len(p)) = p

\* call o puts text into the document: append, prepend, or insert at a position
\* inside the document
AddsText(o) ==
    \/ o.op \in {"append", "prepend"}
    \/ (o.op = "insert" /\ o.pos <= doc_len(o.before))

\* C22: both buffers are append-only: original never changes after construction, the
\* previous content of add is a prefix of its new content, a successful append,
\* prepend or insert of t extends add by exactly the bytes of t, and delete leaves
\* add unchanged.
C22_BuffersAppendOnly ==
    Edited =>
        /\ original = LastOp.before.original
        /\ IsPrefix(LastOp.before.add, add)
        /\ (phase = "ready" /\ AddsText(LastOp)) => add = LastOp.before.add \o LastOp.text
        /\ LastOp.op = "delete" => add = LastOp.before.add

C22_Witness ==
    /\ phase = "ready"
    /\ Len(hist) = 3
    /\ hist[2].op = "insert" /\ hist[2].text # <<>>
    /\ LastOp.op = "insert" /\ LastOp.text # <<>>
    /\ 0 < LastOp.pos /\ LastOp.pos < doc_len(LastOp.before)
    /\ LastOp.before.add # <<>>
    /\ original # <<>>
    /\ add = LastOp.before.add \o LastOp.text

\* the ranges checked for get_lines: every window of two lines, and the one over
\* all the line numbers
LineWindows == { r \in LineRanges : r[2] - r[1] = 2 \/ r = <<0, 5>> }

\* <<get_line_content(0), .., get_line_content(n)>>: line k is element k + 1
RECURSIVE LineContents(_, _)
LineContents(self, n) ==
    IF n < 0 THEN <<>> ELSE Append(LineContents(self, n - 1), get_line_content(self, n))

\* the contents that exist among the lines start .. end - 1 of content, in that order
RECURSIVE ExistingLines(_, _, _)
ExistingLines(content, start, end) ==
    IF start >= end THEN <<>>
    ELSE ExistingLines(content, start, end - 1)
             \o (IF content[end].some THEN <<content[end].val>> ELSE <<>>)

\* C23: Document::get_lines(start..end) returns, in ascending line order, exactly the
\* contents get_line_content(n) that exist for start <= n < end; line 0 and line
\* numbers past the end are left out without error, so the result has at most
\* end - start entries.
C23_GetLinesCollectsExisting ==
    phase = "ready" =>
        LET content == LineContents(Self, 5) IN
        \A r \in LineWindows :
            (\A n \in r[1] .. (r[2] - 1) : content[n + 1].ok) =>
                LET lines == get_lines(Self, r[1], r[2]) IN
                /\ lines.ok
                /\ lines.val = ExistingLines(content, r[1], r[2])
                /\ Len(lines.val) <= r[2] - r[1]

C23_Witness ==
    /\ phase = "ready"
    /\ Len(table) >= 3
    /\ get_line_count(Self).val = 3
    /\ get_lines(Self, 0, 5).ok
    /\ Len(get_lines(Self, 0, 5).val) = 3
    /\ get_lines(Self, 0, 5).val[1] # get_lines(Self, 0, 5).val[3]

\* a line without its trailing CR (byte 13), as str::lines strips it
StripCR(l) == IF l # <<>> /\ l[Len(l)] = 13 THEN SubSeq(l, 1, Len(l) - 1) ELSE l

\* the lines of s as str::lines gives them: s split at every LF, a terminating LF
\* starting no further line, the empty string having no lines
StrLines(s) ==
    LET pieces == SplitLines(s)
        kept == IF pieces[Len(pieces)] = <<>> THEN SubSeq(pieces, 1, Len(pieces) - 1)
                ELSE pieces
    IN  [i \in 1 .. Len(kept) |-> StripCR(kept[i])]

Loaded == Len(hist) = 1 /\ hist[1].op = "load"

Min(a, b) == IF a <= b THEN a ELSE b

\* C24: for a document loaded from a file with content s and any range 1 <= a <= b,
\* get_lines(a..b) is elements a .. b - 1 of the lines of s (a terminating LF starts
\* no further line, an empty file has no lines), cut off at the end of that list.
C24_LoadedLinesAreStrLines ==
    Loaded =>
        /\ phase = "ready"
        /\ \A r \in LineRanges :
              r[1] >= 1 =>
                  LET lines == StrLines(hist[1].text) IN
                  get_lines(Self, r[1], r[2]) =
                      [ok |-> TRUE, val |-> SubSeq(lines, r[1], Min(r[2] - 1, Len(lines)))]

\* the same for files that are not empty and do not end with LF
C24_NoTerminatingLF ==
    (hist # <<>> /\ hist[1].text # <<>> /\ hist[1].text[Len(hist[1].text)] # LF) =>
        C24_LoadedLinesAreStrLines

DocInserted == Edited /\ LastOp.op = "doc_insert"

\* C25: Document::insert(line, column, c) leaves the document unchanged when
\* (line, column) does not translate to a document position, and otherwise inserts
\* c at exactly the translated byte position.
C25_DocumentInsertAtTranslatedPos ==
    DocInserted =>
        LET pos == get_doc_pos(LastOp.before, LastOp.pos, LastOp.end) IN
        IF pos.ok /\ pos.some
        THEN ReturnedWithText(NaiveInsert(TextOf(LastOp.before), pos.val, LastOp.text))
        ELSE Unchanged(LastOp)

\* C25 for the first insert into a freshly loaded document
C25_FirstInsert == Len(hist) = 2 => C25_DocumentInsertAtTranslatedPos

\* the terminal was started by Editor::run, which has returned
RunReturned == editor.pc = "returned" /\ editor.started

\* C26: when Editor::run returns, after a clean exit or after an error of event
\* handling or rendering, the terminal is neither in raw mode nor on the alternate
\* screen
C26_TerminalRestored ==
    RunReturned => (~editor.raw_mode /\ ~editor.alternate_screen)

\* the alternate screen alone is left on the clean exit path
C26_CleanExitLeavesAlternateScreen ==
    (RunReturned /\ editor.result = "Ok") => ~editor.alternate_screen

InEditor == editor.pc \in {"loop", "returned", "panicked"}

\* C27: once Ctrl-Q has been read the exit flag is set, no event is read after it
\* and, unless terminal I/O failed, run goes on to Terminal::shutdown and returns;
\* the exit flag is set by nothing but Ctrl-Q
C27_CtrlQExits ==
    InEditor =>
        /\ editor.exit => editor.ctrl_q_read
        /\ (editor.ctrl_q_read /\ ~editor.io_failed) =>
              /\ editor.exit
              /\ ~editor.read_after_exit
              /\ editor.pc \in {"loop", "returned"}
              /\ editor.pc = "returned" => editor.shutdown_called

\* the same where the status line fits the terminal's width
C27_CtrlQExitsWideTerminal ==
    (InEditor /\ editor.size.width >= 12) => C27_CtrlQExits

\* C28: after a failed load the error has been reported and the event loop runs
\* on an empty document; a document is there whenever events are handled
C28_LoadFailureReported ==
    editor.pc = "loop" =>
        /\ editor.document.some
        /\ editor.load_failed =>
              /\ editor.reported
              /\ text(editor.document.buffer) = [ok |-> TRUE, val |-> <<>>]

\* all of it but the report
C28_EmptyDocumentAfterFailure ==
    editor.pc = "loop" =>
        /\ editor.document.some
        /\ (editor.load_failed /\ editor.events = 0) =>
              text(editor.document.buffer) = [ok |-> TRUE, val |-> <<>>]

\* the last call was delete(a, b) with a < b <= doc_len and room for an m between
DeletedRange ==
    /\ Edited
    /\ LastOp.op = "delete"
    /\ LastOp.pos + 1 < LastOp.end
    /\ LastOp.end <= doc_len(LastOp.before)

\* delete(m, b) followed by delete(a, m)
DeleteInTwo(self, a, m, b) ==
    LET upper == delete(self, m, b) IN
    IF ~upper.ok THEN Failed ELSE delete(upper.self, a, m)

\* C29: in any reachable state and for a < m < b <= doc_len, delete(a, b) returns
\* with the text() that delete(m, b) followed by delete(a, m) returns with
C29_DeleteInOneOrTwo ==
    DeletedRange =>
        \A m \in (LastOp.pos + 1) .. (LastOp.end - 1) :
            LET two == DeleteInTwo(LastOp.before, LastOp.pos, m, LastOp.end) IN
            /\ phase = "ready"
            /\ two.ok
            /\ text(Self).ok
            /\ text(Self) = text(two.self)

\* document offset of the first byte of the i-th span of a table
RECURSIVE DocStartOf(_, _)
DocStartOf(tbl, i) == IF i = 1 THEN 0 ELSE DocStartOf(tbl, i - 1) + tbl[i - 1].len

\* the spans that hold document offset pos strictly inside
HostsOf(self, pos) ==
    { i \in 1 .. Len(self.table) :
        /\ DocStartOf(self.table, i) < pos
        /\ pos < DocStartOf(self.table, i) + self.table[i].len }

\* buffer tag, buffer start and length of each span of a table
Triples(tbl) == [i \in 1 .. Len(tbl) |-> <<tbl[i].buffer, tbl[i].start, tbl[i].len>>]

\* the three spans that take the place of host when text t goes in at pos
SplitOf(self, host, pos, t) ==
    LET h == self.table[host]
        left == pos - DocStartOf(self.table, host)
    IN  << <<h.buffer, h.start, left>>,
           <<"Add", Len(self.add), Len(t)>>,
           <<h.buffer, h.start + left, h.len - left>> >>

\* the last call was an insert of some text strictly inside a span
InsertedInside ==
    /\ Edited
    /\ LastOp.op = "insert"
    /\ LastOp.text # <<>>
    /\ HostsOf(LastOp.before, LastOp.pos) # {}

\* C30: insert(pos, t) of a non-empty t strictly inside a span (B, s, n) that begins at document
\* offset d returns with the host replaced by (B, s, pos - d), (Add, former length
\* of add, len(t)), (B, s + (pos - d), n - (pos - d)) and every other span where it
\* was, whatever s is
C30_InsertSplitsHost ==
    InsertedInside =>
        \A host \in HostsOf(LastOp.before, LastOp.pos) :
            LET old == Triples(LastOp.before.table) IN
            /\ phase = "ready"
            /\ Triples(table) =
                   SubSeq(old, 1, host - 1)
                       \o SplitOf(LastOp.before, host, LastOp.pos, LastOp.text)
                       \o SubSeq(old, host + 1, Len(old))

\* the same for a host that begins at offset 0 of its buffer
C30_HostAtBufferStart ==
    InsertedInside =>
        \A host \in HostsOf(LastOp.before, LastOp.pos) :
            LastOp.before.table[host].start = 0 =>
                LET old == Triples(LastOp.before.table) IN
                /\ phase = "ready"
                /\ Triples(table) =
                       SubSeq(old, 1, host - 1)
                           \o SplitOf(LastOp.before, host, LastOp.pos, LastOp.text)
                           \o SubSeq(old, host + 1, Len(old))

\* the spans after the first that begin at document offset pos
StartingAt(self, pos) ==
    { i \in 2 .. Len(self.table) : DocStartOf(self.table, i) = pos }

NoEmptySpan(self) == \A i \in 1 .. Len(self.table) : self.table[i].len # 0

\* the last call was an insert of some text at the join of two spans
InsertedAtJoin ==
    /\ Edited
    /\ LastOp.op = "insert"
    /\ LastOp.text # <<>>
    /\ 0 < LastOp.pos
    /\ LastOp.pos < doc_len(LastOp.before)
    /\ NoEmptySpan(LastOp.before)
    /\ StartingAt(LastOp.before, LastOp.pos) # {}

\* C31: insert(pos, t) with 0 < pos < doc_len at the document start of a span returns
\* with the table it found plus one span, the new Add span, right before the span
\* that starts at pos
C31_InsertAtJoinAddsOneSpan ==
    InsertedAtJoin =>
        \A next \in StartingAt(LastOp.before, LastOp.pos) :
            LET old == Triples(LastOp.before.table) IN
            /\ phase = "ready"
            /\ Triples(table) =
                   SubSeq(old, 1, next - 1)
                       \o << <<"Add", Len(LastOp.before.add), Len(LastOp.text)>> >>
                       \o SubSeq(old, next, Len(old))

\* the text, as opposed to the table, is the one expected when the call returns and
\* the span on the left of the join begins at offset 0 of its buffer
C31_TextAtJoin ==
    (InsertedAtJoin /\ phase = "ready") =>
        \A next \in StartingAt(LastOp.before, LastOp.pos) :
            LastOp.before.table[next - 1].start = 0 =>
                ReturnedWithText(NaiveInsert(TextOf(LastOp.before), LastOp.pos, LastOp.text))

\* the span delete(a, b) locates both of its ends in, when it is one span
SameSpanOf(self, a, b) ==
    { i \in 1 .. Len(self.table) :
        /\ get_piece_at_position(self, a).found
        /\ get_piece_at_position(self, b).found
        /\ get_piece_at_position(self, a).index = i - 1
        /\ get_piece_at_position(self, b).index = i - 1 }

\* the last call was delete(a, b) with a < b, both ends inside one span and away from
\* its ends, so that the prefix and the suffix are not empty
DeletedInsideSpan ==
    /\ Edited
    /\ LastOp.op = "delete"
    /\ LastOp.pos < LastOp.end
    /\ \E i \in SameSpanOf(LastOp.before, LastOp.pos, LastOp.end) :
          /\ DocStartOf(LastOp.before.table, i) < LastOp.pos
          /\ LastOp.end < DocStartOf(LastOp.before.table, i) + LastOp.before.table[i].len

\* the prefix and the suffix that take the place of host when [a, b) goes
CutOf(self, host, a, b) ==
    LET h == self.table[host]
        d == DocStartOf(self.table, host)
    IN  << <<h.buffer, h.start, a - d>>,
           <<h.buffer, h.start + (b - d), h.len - (b - d)>> >>

\* C32: delete(a, b) with a < b and both ends in one span (B, s, n) that begins at
\* document offset d returns with that span replaced by (B, s, a - d) and
\* (B, s + (b - d), n - (b - d)) and every other span as it was, whatever d is
C32_DeleteSplitsSpan ==
    DeletedInsideSpan =>
        \A host \in SameSpanOf(LastOp.before, LastOp.pos, LastOp.end) :
            LET old == Triples(LastOp.before.table) IN
            /\ phase = "ready"
            /\ Triples(table) =
                   SubSeq(old, 1, host - 1)
                       \o CutOf(LastOp.before, host, LastOp.pos, LastOp.end)
                       \o SubSeq(old, host + 1, Len(old))

\* the same for a span that begins at document offset 0
C32_SpanAtDocumentStart ==
    DeletedInsideSpan =>
        \A host \in SameSpanOf(LastOp.before, LastOp.pos, LastOp.end) :
            DocStartOf(LastOp.before.table, host) = 0 =>
                LET old == Triples(LastOp.before.table) IN
                /\ phase = "ready"
                /\ Triples(table) =
                       SubSeq(old, 1, host - 1)
                           \o CutOf(LastOp.before, host, LastOp.pos, LastOp.end)
                           \o SubSeq(old, host + 1, Len(old))

\* 1-based index of the span get_piece_at_position locates pos in
SpanAt(self, pos) == get_piece_at_position(self, pos).index + 1

\* the last call was delete(a, b) on a table without empty spans, with its ends
\* located in different spans, leaving a non-empty prefix of the first and a
\* non-empty suffix of the second
DeletedAcrossSpans ==
    /\ Edited
    /\ LastOp.op = "delete"
    /\ LastOp.pos < LastOp.end
    /\ NoEmptySpan(LastOp.before)
    /\ get_piece_at_position(LastOp.before, LastOp.pos).found
    /\ get_piece_at_position(LastOp.before, LastOp.end).found
    /\ SpanAt(LastOp.before, LastOp.pos) < SpanAt(LastOp.before, LastOp.end)
    /\ DocStartOf(LastOp.before.table, SpanAt(LastOp.before, LastOp.pos)) < LastOp.pos
    /\ LastOp.end < DocStartOf(LastOp.before.table, SpanAt(LastOp.before, LastOp.end))
                        + LastOp.before.table[SpanAt(LastOp.before, LastOp.end)].len

\* number of spans strictly between the two
SpansBetween == SpanAt(LastOp.before, LastOp.end) - SpanAt(LastOp.before, LastOp.pos) - 1

\* the table the deletion of [a, b) across spans first .. last is to leave
ShrunkTable(self, first, last, a, b) ==
    LET old == Triples(self.table)
        cut1 == CutOf(self, first, a, a)
        cut2 == CutOf(self, last, b, b)
    IN  SubSeq(old, 1, first - 1) \o <<cut1[1], cut2[2]>> \o SubSeq(old, last + 1, Len(old))

\* C33: delete(a, b) with its ends in different spans p1 and p2 returns with the
\* spans before p1 and after p2 as they were, p1 cut to its prefix up to a, p2 cut to
\* its suffix from b and no span left between them, however many there were
C33_DeleteAcrossSpans ==
    DeletedAcrossSpans =>
        /\ phase = "ready"
        /\ Triples(table) =
               ShrunkTable(LastOp.before, SpanAt(LastOp.before, LastOp.pos),
                           SpanAt(LastOp.before, LastOp.end), LastOp.pos, LastOp.end)

\* the same with at most one span in between
C33_AtMostOneBetween ==
    (DeletedAcrossSpans /\ SpansBetween <= 1) =>
        /\ phase = "ready"
        /\ Triples(table) =
               ShrunkTable(LastOp.before, SpanAt(LastOp.before, LastOp.pos),
                           SpanAt(LastOp.before, LastOp.end), LastOp.pos, LastOp.end)

\* the spans whose accumulated document end is at or beyond pos
EndingFrom(self, pos) ==
    { i \in 1 .. Len(self.table) : DocStartOf(self.table, i) + self.table[i].len >= pos }

\* the least element of a non-empty set of indices
LeastOf(S) == CHOOSE i \in S : \A j \in S : i <= j

\* the one with the least index
FirstEndingFrom(self, pos) == LeastOf(EndingFrom(self, pos))

\* piece is the span of index first (counted from 1) with its document offsets
PieceIs(piece, first) ==
    /\ piece.found
    /\ piece.index + 1 = first
    /\ piece.span = table[first]
    /\ piece.doc.start = DocStartOf(table, first)
    /\ piece.doc.end = piece.doc.start + piece.span.len

\* C34: get_piece_at_position(pos) is None exactly when pos > doc_len or the table is
\* empty; otherwise it is the span with the least index i whose accumulated end is
\* at or beyond pos, with i and the span's document start
C34_PieceAtPosition ==
    phase = "ready" =>
        \A pos \in Positions :
            IF table = <<>> \/ pos > doc_len(Self)
            THEN ~get_piece_at_position(Self, pos).found
            ELSE PieceIs(get_piece_at_position(Self, pos), FirstEndingFrom(Self, pos))

\* a table of three spans without an empty one: at the join of the first two the
\* left one is returned, and beyond the document nothing is
C34_Witness ==
    /\ phase = "ready"
    /\ Len(table) = 3
    /\ NoEmptySpan(Self)
    /\ get_piece_at_position(Self, table[1].len).found
    /\ get_piece_at_position(Self, table[1].len).index = 0
    /\ get_piece_at_position(Self, table[1].len + 1).index = 1
    /\ ~get_piece_at_position(Self, doc_len(Self) + 1).found

\* ascending byte offsets of the LF bytes of s, the first byte being at offset 0
RECURSIVE LFOffsetsFrom(_, _)
LFOffsetsFrom(s, i) ==
    IF i > Len(s) THEN <<>>
    ELSE (IF s[i] = LF THEN <<i - 1>> ELSE <<>>) \o LFOffsetsFrom(s, i + 1)

\* the span's range lies in its buffer and its cached list is that of the LF bytes
\* of the range
CachesLFOffsets(self, span) ==
    /\ 0 <= span.start
    /\ 0 <= span.len
    /\ span.start + span.len <= Len(BufferOf(self, span.buffer))
    /\ span.lines =
           LFOffsetsFrom(Slice(BufferOf(self, span.buffer), span.start,
                               span.start + span.len), 1)

\* C35: after every operation that returns, the cached newline list of every stored
\* span is the ascending list of the byte offsets, from the span's start, of the LF
\* bytes in the buffer range of the span, for split and shrunk spans and for text
\* with multi-byte characters too
C35_CachedNewlinesAreByteOffsets ==
    phase = "ready" => \A i \in 1 .. Len(table) : CachesLFOffsets(Self, table[i])

\* the same for buffers whose text is single-byte characters only
C35_SingleByteText ==
    (phase = "ready" /\ \A i \in 1 .. Len(original) : original[i] < 128) =>
        \A i \in 1 .. Len(table) : CachesLFOffsets(Self, table[i])

\* the last call was delete(a, a) with a <= doc_len
DeletedNothing ==
    /\ Edited
    /\ LastOp.op = "delete"
    /\ LastOp.pos = LastOp.end
    /\ LastOp.pos <= doc_len(LastOp.before)

\* C36: delete(a, a) with 0 <= a <= doc_len, in any reachable state and wherever a
\* lies in the table, returns and leaves text() as it was
C36_DeleteNothingKeepsText ==
    DeletedNothing => ReturnedWithText(TextOf(LastOp.before))

\* the same in release builds for a in the first span of a table without empty
\* spans
C36_ReleaseFirstSpan ==
    (DeletedNothing /\ ~debug_assertions /\ LastOp.before.table # <<>>
                    /\ NoEmptySpan(LastOp.before)) =>
        (LastOp.pos <= LastOp.before.table[1].len =>
            ReturnedWithText(TextOf(LastOp.before)))

\* C37: every span stored in the table has end = start + len after every operation,
\* also after delete_multiple of the older TextBuffer has updated the fields of the
\* first and the last span in place
C37_SpanEndIsStartPlusLen ==
    \A i \in 1 .. Len(table) : table[i].end = table[i].start + table[i].len

\* a deletion across two spans has returned and has shortened both of them in place
C37_Witness ==
    /\ Edited
    /\ phase = "ready"
    /\ LastOp.op = "delete"
    /\ buffer_get_piece_at_position(LastOp.before, LastOp.pos).found
    /\ buffer_get_piece_at_position(LastOp.before, LastOp.end).found
    /\ buffer_get_piece_at_position(LastOp.before, LastOp.pos).index = 0
    /\ buffer_get_piece_at_position(LastOp.before, LastOp.end).index = 1
    /\ Len(table) = 2
    /\ 0 < table[1].len
    /\ table[1].len < LastOp.before.table[1].len
    /\ 0 < table[2].len
    /\ table[2].len < LastOp.before.table[2].len
    /\ table[2].start > LastOp.before.table[2].start

ArrowKeys == {"Left", "Right", "Up", "Down"}

\* the process died while process_event handled an arrow key: should_render, set
\* when process_event begins and cleared before the render, is still set, and no
\* terminal call failed
AbortedInArrowKey ==
    /\ editor.pc = "panicked"
    /\ editor.last_event \in ArrowKeys
    /\ ~editor.io_failed
    /\ editor.should_render

\* C38: whatever the document and the arrow keys pressed, the handling of an arrow
\* key never aborts on an index into lines that is out of range or on an underflow,
\* and the tracked row stays within 1 ..= line_count()
C38_ArrowKeysStayInRange ==
    /\ ~AbortedInArrowKey
    /\ (editor.pc = "loop" /\ editor.last_event \in ArrowKeys) =>
          LET line_count == get_line_count(editor.document.buffer) IN
          /\ line_count.ok
          /\ 1 <= editor.row
          /\ editor.row <= line_count.val

\* the Left key alone never aborts and never moves the row
C38_LeftKeyIsSafe ==
    (editor.pc \in {"loop", "panicked"} /\ editor.events = 1 /\ editor.last_event = "Left") =>
        /\ ~AbortedInArrowKey
        /\ editor.row = 1

====
